---- MODULE Spec2Model ----
(***************************************************************************)
(* Model of the GitHub library sync agent (github_sync.py).                *)
(*                                                                         *)
(* Spec      : repeated invocations of run_sync, one step per statement    *)
(*             group of the function, with the remote API, the local       *)
(*             filesystem and process crashes as nondeterministic inputs.  *)
(* ScanSpec  : collect_files walking a bounded directory tree.             *)
(***************************************************************************)
EXTENDS Integers, Sequences, FiniteSets, TLC

(* ------------------------------------------------------------------ *)
(* Values                                                              *)
(* ------------------------------------------------------------------ *)

\* repo-relative paths of the files the library can hold
Paths == {"a.py", "b.py"}

\* content fingerprints (hex digests)
Md5s == {"m1", "m2"}

\* Python's None
None == "None"

\* a path with no local file
NoFile == "nofile"

\* marks a put_file payload that has no "sha" key
Omitted == "omitted"

\* what the contents lookup can answer: <<status code, "sha" of the body>>
\* (found with its version token, not found, server error)
LookupResponses == {<<200, "abc123">>, <<404, None>>, <<500, None>>}

\* status codes the contents write can answer
PutStatuses == {200, 201, 422}

(* ------------------------------------------------------------------ *)
(* Python dicts and the JSON text of the cache file                    *)
(* ------------------------------------------------------------------ *)

EmptyDict == [p \in {} |-> None]

Dicts == UNION {[S -> Md5s] : S \in SUBSET Paths}

\* cache.get(repo_path)
DictGet(d, p) == IF p \in DOMAIN d THEN d[p] ELSE None

\* cache[repo_path] = md5
DictSet(d, p, v) == [q \in (DOMAIN d) \cup {p} |-> IF q = p THEN v ELSE d[q]]

\* json.dumps(cache): the members of the JSON object
JsonDumps(d) == {<<p, d[p]>> : p \in DOMAIN d}

\* json.loads(text)
JsonLoads(members) ==
    [p \in {kv[1] : kv \in members} |-> (CHOOSE kv \in members : kv[1] = p)[2]]

\* the cache file: absent, holding a JSON object, or holding text that is no JSON
AbsentFile == [exists |-> FALSE, valid |-> FALSE, members |-> {}]
JsonFile(d) == [exists |-> TRUE, valid |-> TRUE, members |-> JsonDumps(d)]
TruncatedFile == [exists |-> TRUE, valid |-> FALSE, members |-> {}]

(* ------------------------------------------------------------------ *)
(* State                                                               *)
(* ------------------------------------------------------------------ *)

VARIABLES
    local,        \* path -> fingerprint of the local file, or NoFile
    cacheFile,    \* .sync_cache.json on disk
    cache,        \* run_sync's in-memory cache dict
    stats,        \* run_sync's counters
    pc,           \* position of the process in run_sync
    dry_run,      \* cfg["dry_run"] of the current run
    todo,         \* files collect_files has still to yield, in walk order
    cur,          \* repo_path of the loop iteration in progress
    md5,          \* md5 of the loop iteration in progress
    sha,          \* sha of the loop iteration in progress
    calls,        \* remote calls of the current run that returned, in order
    outcome,      \* path -> how the current run counted it
    exc,          \* the exception that ended the current run
    startFile,    \* the cache file as it was when the current run started
    prev,         \* the previous run, if it completed, persisted and no file changed since
    failedBefore, \* paths whose last write failed in an earlier run, unchanged since
    tree,         \* ScanSpec: the directory tree and the scanner's arguments
    stack,        \* ScanSpec: directories os.walk has still to visit
    yielded,      \* ScanSpec: files collect_files has yielded
    scanPc        \* ScanSpec: position of the generator

syncVars == <<local, cacheFile, cache, stats, pc, dry_run, todo, cur, md5, sha,
              calls, outcome, exc, startFile, prev, failedBefore>>
scanVars == <<tree, stack, yielded, scanPc>>
vars == <<syncVars, scanVars>>

ZeroStats == [uploaded |-> 0, skipped |-> 0, failed |-> 0, total |-> 0]

Inc(s, k) == [s EXCEPT ![k] = @ + 1]

Call(op, path, status, token, ok) ==
    [op |-> op, path |-> path, status |-> status, sha |-> token, ok |-> ok]

\* all orders in which the walk can yield the files of S
Orders(S) ==
    {s \in [1..Cardinality(S) -> S] : \A i, j \in 1..Cardinality(S) : s[i] = s[j] => i = j}

Present == {p \in Paths : local[p] # NoFile}

NoPrev == [completed |-> FALSE, failed |-> 0, uploaded |-> 0]

(* ------------------------------------------------------------------ *)
(* Pure pieces of run_sync and GitHubAPI                               *)
(* ------------------------------------------------------------------ *)

\* Python truthiness of an Optional[str]
Truthy(s) == s # None /\ s # ""

\* get_file_sha: the body's sha on 200, None on anything else
GetFileShaResult(status, bodySha) == IF status = 200 THEN bodySha ELSE None

\* a put_file that never sends the version token
PutPayloadSha_NeverSent(s) == Omitted

\* put_file: the payload carries "sha" only if sha is truthy
PutPayloadSha(s) == IF Truthy(s) THEN s ELSE Omitted

\* put_file: True on 200 or 201
PutFileResult(status) == status \in {200, 201}

\* the skip test: cache.get(repo_path) == md5
IsUnchanged(c, p, m) == DictGet(c, p) = m

\* a loop that records the fingerprint whether or not the write succeeded
CacheAfterPut_Always(c, p, m, ok) == DictSet(c, p, m)

\* a loop that forgets to record the fingerprint of an uploaded file
CacheAfterPut_Never(c, p, m, ok) == c

\* the cache after put_file returned ok
CacheAfterPut(c, p, m, ok) == IF ok THEN DictSet(c, p, m) ELSE c

\* a loop that does not count a failed write
StatsAfterPut_FailureUncounted(s, ok) == IF ok THEN Inc(s, "uploaded") ELSE s

\* the counters after put_file returned ok
StatsAfterPut(s, ok) == IF ok THEN Inc(s, "uploaded") ELSE Inc(s, "failed")

\* a run that writes the cache back even in preview mode
ShouldPersist_Always(dry) == TRUE

\* the cache is written back unless the run is a preview
ShouldPersist(dry) == ~dry

(* ------------------------------------------------------------------ *)
(* run_sync                                                            *)
(* ------------------------------------------------------------------ *)

Abort(e) ==
    /\ pc' = "aborted"
    /\ exc' = e

\* a new invocation: counters reset, config and library root validated
StartRun(dry, missingField, isDir) ==
    /\ pc = "idle"
    /\ dry_run' = dry
    /\ stats' = ZeroStats
    /\ startFile' = cacheFile
    /\ IF missingField \/ ~isDir
          THEN Abort("SystemExit")
          ELSE pc' = "ensure" /\ exc' = "none"
    /\ UNCHANGED <<local, cacheFile, cache, todo, cur, md5, sha, calls, outcome,
                   prev, failedBefore, scanVars>>

\* ensure_repo_exists, and create_repo when the repository is not accessible
EnsureRepo(accessible, created) ==
    /\ pc = "ensure"
    /\ IF accessible
          THEN /\ pc' = "load"
               /\ UNCHANGED <<calls, exc>>
          ELSE /\ calls' = Append(calls,
                      Call("create_repo", None, IF created THEN 201 ELSE 422, None, created))
               /\ IF created
                     THEN pc' = "load" /\ UNCHANGED exc
                     ELSE Abort("SystemExit")
    /\ UNCHANGED <<local, cacheFile, cache, stats, dry_run, todo, cur, md5, sha,
                   outcome, startFile, prev, failedBefore, scanVars>>

\* the cache is loaded and the scan of the library begins
LoadCache(order) ==
    /\ pc = "load"
    /\ order \in Orders(Present)
    /\ IF ~cacheFile.exists
          THEN /\ cache' = EmptyDict
               /\ todo' = order
               /\ pc' = "loop"
               /\ UNCHANGED exc
          ELSE IF cacheFile.valid
                  THEN /\ cache' = JsonLoads(cacheFile.members)
                       /\ todo' = order
                       /\ pc' = "loop"
                       /\ UNCHANGED exc
                  ELSE /\ Abort("JSONDecodeError")
                       /\ UNCHANGED <<cache, todo>>
    /\ UNCHANGED <<local, cacheFile, stats, dry_run, cur, md5, sha, calls,
                   outcome, startFile, prev, failedBefore, scanVars>>

\* head of one loop iteration: count, fingerprint, skip or preview
ProcessFile(readable) ==
    /\ pc = "loop"
    /\ todo # <<>>
    /\ LET p == Head(todo)
           m == local[p]
       IN  /\ cur' = p
           /\ IF ~readable
                 THEN /\ stats' = Inc(stats, "total")
                      /\ Abort("OSError")
                      /\ UNCHANGED <<md5, todo, outcome>>
                 ELSE /\ md5' = m
                      /\ UNCHANGED exc
                      /\ IF IsUnchanged(cache, p, m)
                            THEN /\ stats' = Inc(Inc(stats, "total"), "skipped")
                                 /\ outcome' = [outcome EXCEPT ![p] = "skipped"]
                                 /\ todo' = Tail(todo)
                                 /\ pc' = "loop"
                            ELSE IF dry_run
                                    THEN /\ stats' = Inc(Inc(stats, "total"), "uploaded")
                                         /\ outcome' = [outcome EXCEPT ![p] = "preview"]
                                         /\ todo' = Tail(todo)
                                         /\ pc' = "loop"
                                    ELSE /\ stats' = Inc(stats, "total")
                                         /\ pc' = "lookup"
                                         /\ UNCHANGED <<todo, outcome>>
    /\ UNCHANGED <<local, cacheFile, cache, dry_run, sha, calls, startFile, prev,
                   failedBefore, scanVars>>

\* sha = api.get_file_sha(repo_path); raised: the request raises instead of answering
GetFileSha(raised, resp) ==
    /\ pc = "lookup"
    /\ IF raised
          THEN /\ Abort("RequestException")
               /\ UNCHANGED <<sha, calls>>
          ELSE /\ sha' = GetFileShaResult(resp[1], resp[2])
               /\ calls' = Append(calls,
                      Call("get_file_sha", cur, resp[1], GetFileShaResult(resp[1], resp[2]), resp[1] = 200))
               /\ pc' = "read"
               /\ UNCHANGED exc
    /\ UNCHANGED <<local, cacheFile, cache, stats, dry_run, todo, cur, md5,
                   outcome, startFile, prev, failedBefore, scanVars>>

\* content = abs_path.read_bytes()
ReadBytes(readable) ==
    /\ pc = "read"
    /\ IF readable
          THEN pc' = "put" /\ UNCHANGED exc
          ELSE Abort("OSError")
    /\ UNCHANGED <<local, cacheFile, cache, stats, dry_run, todo, cur, md5, sha,
                   calls, outcome, startFile, prev, failedBefore, scanVars>>

\* api.put_file(repo_path, content, commit_msg, sha=sha) and both branches on its result
PutFile(raised, status) ==
    /\ pc = "put"
    /\ IF raised
          THEN /\ Abort("RequestException")
               /\ UNCHANGED <<cache, stats, todo, calls, outcome>>
          ELSE LET ok == PutFileResult(status)
               IN  /\ calls' = Append(calls,
                          Call("put_file", cur, IF ok THEN 201 ELSE 422, PutPayloadSha(sha), ok))
                   /\ cache' = CacheAfterPut(cache, cur, md5, ok)
                   /\ stats' = StatsAfterPut(stats, ok)
                   /\ outcome' = [outcome EXCEPT ![cur] = IF ok THEN "uploaded" ELSE "failed"]
                   /\ todo' = Tail(todo)
                   /\ pc' = "loop"
                   /\ UNCHANGED exc
    /\ UNCHANGED <<local, cacheFile, dry_run, cur, md5, sha, startFile, prev,
                   failedBefore, scanVars>>

\* cache_file.write_text(...), first half: the file is opened for writing and truncated
PersistOpen ==
    /\ pc = "loop"
    /\ todo = <<>>
    /\ ShouldPersist(dry_run)
    /\ cacheFile' = TruncatedFile
    /\ pc' = "write"
    /\ UNCHANGED <<local, cache, stats, dry_run, todo, cur, md5, sha, calls, outcome,
                   exc, startFile, prev, failedBefore, scanVars>>

\* cache_file.write_text(...), second half: the text is written; the stats are returned
PersistWrite ==
    /\ pc = "write"
    /\ cacheFile' = JsonFile(cache)
    /\ pc' = "done"
    /\ UNCHANGED <<local, cache, stats, dry_run, todo, cur, md5, sha, calls, outcome,
                   exc, startFile, prev, failedBefore, scanVars>>

\* a preview run returns its stats without writing the cache
ReturnPreview ==
    /\ pc = "loop"
    /\ todo = <<>>
    /\ ~ShouldPersist(dry_run)
    /\ pc' = "done"
    /\ UNCHANGED <<local, cacheFile, cache, stats, dry_run, todo, cur, md5, sha, calls,
                   outcome, exc, startFile, prev, failedBefore, scanVars>>

\* the process is killed in the middle of a run
Crash ==
    /\ pc \notin {"idle", "done", "aborted", "crashed"}
    /\ pc' = "crashed"
    /\ UNCHANGED <<local, cacheFile, cache, stats, dry_run, todo, cur, md5, sha, calls,
                   outcome, exc, startFile, prev, failedBefore, scanVars>>

\* the process is gone: its memory is lost, what it did is remembered for the next run
Exit ==
    /\ pc \in {"done", "aborted", "crashed"}
    /\ pc' = "idle"
    /\ prev' = IF pc = "done" /\ ~dry_run
                  THEN [completed |-> TRUE, failed |-> stats.failed, uploaded |-> stats.uploaded]
                  ELSE NoPrev
    /\ failedBefore' =
          (failedBefore \ {p \in Paths : outcome[p] = "uploaded"})
              \cup {p \in Paths : outcome[p] = "failed"}
    /\ dry_run' = FALSE
    /\ stats' = ZeroStats
    /\ cache' = EmptyDict
    /\ todo' = <<>>
    /\ cur' = None
    /\ md5' = None
    /\ sha' = None
    /\ calls' = <<>>
    /\ outcome' = [p \in Paths |-> "none"]
    /\ exc' = "none"
    /\ startFile' = cacheFile
    /\ UNCHANGED <<local, cacheFile, scanVars>>

\* between two runs the user edits, adds or removes a local file
EditFile(p, v) ==
    /\ pc = "idle"
    /\ v # local[p]
    /\ local' = [local EXCEPT ![p] = v]
    /\ prev' = NoPrev
    /\ failedBefore' = failedBefore \ {p}
    /\ UNCHANGED <<cacheFile, cache, stats, pc, dry_run, todo, cur, md5, sha, calls,
                   outcome, exc, startFile, scanVars>>

(* ------------------------------------------------------------------ *)
(* collect_files                                                       *)
(* ------------------------------------------------------------------ *)

\* directories of the tree besides the library root, which is directory 0
NumDirs == 2

\* bytes in a megabyte: max_mb * 1024 * 1024
MiB == 1048576

Dirs == 0..NumDirs

DirNames == {"src", "build"}

\* the file a directory holds: <<file name, st_size>>
FileKinds == {<<"a.PY", 349525>>, <<"b.py", 349526>>, <<"c.bin", 0>>}

\* cfg["extensions"], cfg["ignore_dirs"] and cfg["max_file_size_mb"] as <<numerator, denominator>>
ExtensionLists == {{}, {".Py"}}
IgnoreLists == {{}, {"build"}}
MaxMbValues == {<<-1, 3>>, <<1, 3>>}

\* Path(fname).suffix
Suffix(fname) ==
    CASE fname = "a.PY" -> ".PY"
      [] fname = "b.py" -> ".py"
      [] fname = "c.bin" -> ".bin"

\* str.lower()
Lower(str) ==
    CASE str \in {".PY", ".Py", ".py"} -> ".py"
      [] OTHER -> str

\* int(x) of the fraction num / den: truncation towards zero
IntTrunc(num, den) == IF num >= 0 THEN num \div den ELSE -((-num) \div den)

\* max_bytes = int(max_mb * 1024 * 1024)
MaxBytes(max_mb) == IntTrunc(max_mb[1] * MiB, max_mb[2])

\* exts = {e.lower() for e in extensions} if extensions else None; the suffix test
ExtensionPasses(extensions, fname) ==
    LET exts == {Lower(e) : e \in extensions}
    IN  exts = {} \/ Lower(Suffix(fname)) \in exts

\* a walk that descends into every directory
KeptDirs_NoPruning(t, dirs) == dirs

\* dirs[:] = [d for d in dirs if d not in ignore]
KeptDirs(t, dirs) == {d \in dirs : t.name[d] \notin t.ignore_dirs}

\* the file of directory d passes the extension and size filters
Yields(t, d) ==
    /\ ExtensionPasses(t.extensions, t.file[d][1])
    /\ ~(t.file[d][2] > MaxBytes(t.max_mb))

Trees ==
    [parent : {f \in [Dirs -> Dirs] : f[0] = 0 /\ \A d \in Dirs \ {0} : f[d] < d},
     name : [Dirs -> DirNames],
     file : [Dirs -> FileKinds],
     extensions : ExtensionLists,
     ignore_dirs : IgnoreLists,
     max_mb : MaxMbValues]

\* os.walk visits one directory: its subdirectories are pruned, its file filtered,
\* and the subdirectories kept are walked next, before the directories still waiting
WalkDir(order) ==
    /\ scanPc = "walking"
    /\ stack # <<>>
    /\ LET d == Head(stack)
           kept == KeptDirs(tree, {c \in Dirs \ {0} : tree.parent[c] = d})
       IN  /\ order \in Orders(kept)
           /\ yielded' = IF Yields(tree, d) THEN yielded \cup {d} ELSE yielded
           /\ stack' = order \o Tail(stack)
    /\ UNCHANGED <<tree, scanPc, syncVars>>

\* the walk is over: the generator is exhausted
ScanDone ==
    /\ scanPc = "walking"
    /\ stack = <<>>
    /\ scanPc' = "done"
    /\ UNCHANGED <<tree, stack, yielded, syncVars>>

(* ------------------------------------------------------------------ *)
(* Specifications                                                      *)
(* ------------------------------------------------------------------ *)

ScanIdle ==
    /\ tree = None
    /\ stack = <<>>
    /\ yielded = {}
    /\ scanPc = "off"

SyncIdle ==
    /\ cache = EmptyDict
    /\ stats = ZeroStats
    /\ pc = "idle"
    /\ dry_run = FALSE
    /\ todo = <<>>
    /\ cur = None
    /\ md5 = None
    /\ sha = None
    /\ calls = <<>>
    /\ outcome = [p \in Paths |-> "none"]
    /\ exc = "none"
    /\ startFile = cacheFile
    /\ prev = NoPrev
    /\ failedBefore = {}

Init ==
    /\ local \in [Paths -> Md5s \cup {NoFile}]
    /\ cacheFile \in {AbsentFile} \cup {JsonFile(d) : d \in Dicts}
    /\ SyncIdle
    /\ ScanIdle

Next ==
    \/ \E dry, missingField, isDir \in BOOLEAN : StartRun(dry, missingField, isDir)
    \/ \E accessible, created \in BOOLEAN : EnsureRepo(accessible, created)
    \/ \E order \in Orders(Present) : LoadCache(order)
    \/ \E readable \in BOOLEAN : ProcessFile(readable)
    \/ \E raised \in BOOLEAN, resp \in LookupResponses : GetFileSha(raised, resp)
    \/ \E readable \in BOOLEAN : ReadBytes(readable)
    \/ \E raised \in BOOLEAN, status \in PutStatuses : PutFile(raised, status)
    \/ PersistOpen
    \/ PersistWrite
    \/ ReturnPreview
    \/ Crash
    \/ Exit
    \/ \E p \in Paths, v \in Md5s \cup {NoFile} : EditFile(p, v)

Spec == Init /\ [][Next]_vars

ScanInit ==
    /\ tree \in Trees
    /\ stack = <<0>>
    /\ yielded = {}
    /\ scanPc = "walking"
    /\ local = [p \in Paths |-> NoFile]
    /\ cacheFile = AbsentFile
    /\ SyncIdle

ScanNext ==
    \/ \E order \in UNION {Orders(S) : S \in SUBSET Dirs} : WalkDir(order)
    \/ ScanDone

ScanSpec == ScanInit /\ [][ScanNext]_vars

(* ------------------------------------------------------------------ *)
(* Properties of run_sync                                              *)
(* ------------------------------------------------------------------ *)

Puts == {i \in DOMAIN calls : calls[i].op = "put_file"}

Lookups == {i \in DOMAIN calls : calls[i].op = "get_file_sha"}

\* the mapping the current run loaded (or would load) from the cache file
LoadedCache ==
    IF startFile.exists /\ startFile.valid THEN JsonLoads(startFile.members) ELSE EmptyDict

\* C1: between loop iterations, while the cache is written and when the stats are
\* returned, uploaded + skipped + failed equals total.
C1_CounterConservation ==
    pc \in {"loop", "write", "done"} =>
        stats.uploaded + stats.skipped + stats.failed = stats.total

C1_Witness ==
    /\ pc = "done"
    /\ stats.total = 2
    /\ stats.failed = 1
    /\ stats.uploaded = 1

\* C2 as stated: a run that follows a completed, persisted non-preview run with no
\* local change in between uploads nothing and skips every scanned file, whatever
\* the first run's writes returned.
C2_IdempotenceAnyFirstRun ==
    prev.completed =>
        /\ stats.uploaded = 0
        /\ stats.failed = 0
        /\ pc = "done" => stats.skipped = stats.total

\* C2 amended: the same, provided the first run counted no file as failed.
C2_IdempotenceAfterCleanRun ==
    (prev.completed /\ prev.failed = 0) =>
        /\ stats.uploaded = 0
        /\ stats.failed = 0
        /\ pc = "done" => stats.skipped = stats.total

C2_Witness ==
    /\ prev.completed
    /\ prev.failed = 0
    /\ prev.uploaded = 2
    /\ pc = "done"
    /\ stats.skipped = 2

\* C3: during and after a preview run no put_file call has been made and the cache
\* file is what it was when the run started.
C3_DryRunPurity ==
    (dry_run /\ pc # "idle") =>
        /\ Puts = {}
        /\ cacheFile = startFile

C3_Witness ==
    /\ dry_run
    /\ pc = "done"
    /\ stats.uploaded = 2
    /\ ~startFile.exists

\* C4: every put_file that returned failure is counted once in failed, leaves the
\* cache entry of its path as loaded, does not stop the loop from reaching the other
\* files, and the path is not skipped by a later run over the unchanged file: a
\* later non-preview run that gets past it has made the lookup and the write.
C4_WriteFailureRetried ==
    /\ stats.failed = Cardinality({i \in Puts : ~calls[i].ok})
    /\ \A p \in Paths :
          outcome[p] = "failed" => DictGet(cache, p) = DictGet(LoadedCache, p)
    /\ pc \in {"write", "done"} => \A p \in Present : outcome[p] # "none"
    /\ \A p \in failedBefore :
          /\ outcome[p] # "skipped"
          /\ outcome[p] \in {"uploaded", "failed"} =>
                /\ \E i \in Lookups : calls[i].path = p
                /\ \E i \in Puts : calls[i].path = p

C4_Witness ==
    /\ pc = "done"
    /\ \E p \in failedBefore : outcome[p] = "uploaded"
    /\ \E p \in failedBefore : outcome[p] = "failed"

\* C5: an error raised while fingerprinting, reading, looking up or writing one
\* file never ends the run.
C5_PerFileErrorDoesNotAbort ==
    ~(pc = "aborted" /\ exc \in {"OSError", "RequestException"})

\* C6: every put_file call follows a get_file_sha call for the same path, and its
\* payload carries the sha that call returned exactly when it returned one.
C6_UpdateVersusCreate ==
    \A j \in Puts :
        \E i \in Lookups :
            /\ i < j
            /\ calls[i].path = calls[j].path
            /\ IF calls[i].sha = None
                  THEN calls[j].sha = Omitted
                  ELSE calls[j].sha = calls[i].sha

C6_Witness ==
    /\ \E j \in Puts : calls[j].sha = "abc123"
    /\ \E j \in Puts : calls[j].sha = Omitted

\* C8: a preview run issues neither put_file nor create_repo.
C8_PreviewNoRemoteWrite ==
    dry_run => \A i \in DOMAIN calls : calls[i].op \notin {"put_file", "create_repo"}

\* C9: a lookup answered with anything but success or not-found is followed by no
\* write for that path.
C9_LookupFailureNoWrite ==
    \A i \in Lookups :
        calls[i].status \notin {200, 404} =>
            \A j \in Puts : calls[j].path # calls[i].path

\* C10: when the process is killed, the cache file is the complete mapping the run
\* started with or the complete mapping it ends with.
C10_CrashConsistentCache ==
    pc = "crashed" => (cacheFile = startFile \/ cacheFile = JsonFile(cache))

(* ------------------------------------------------------------------ *)
(* Properties of collect_files                                         *)
(* ------------------------------------------------------------------ *)

RECURSIVE Ancestors(_, _)
\* the directories on the way from the library root down to d, both included
Ancestors(t, d) == IF d = 0 THEN {0} ELSE {d} \cup Ancestors(t, t.parent[d])

\* the size limit, in the exact arithmetic of the claim: size > max_mb * 1,048,576
OverLimit(t, d) == t.file[d][2] * t.max_mb[2] > t.max_mb[1] * MiB

====
